---- MODULE Spec2Model ----
(***************************************************************************)
(* Model of ccb/ml.py: the class `tuner`, its constructor, the shared      *)
(* search executor run_gs and the 13 model-family methods.                 *)
(*                                                                         *)
(* Python values are tagged records so that None, strings, callables,      *)
(* dicts and splitter objects can be compared with each other.             *)
(***************************************************************************)
EXTENDS Integers, Sequences, FiniteSets, TLC

VARIABLES
    tuner,      \* the tuner object: its instance attributes
    init,       \* the keyword arguments __init__ was called with
    grids,      \* the caller's own dict objects (passed by reference as param_grid)
    call,       \* the operation on the tuner that ran last (history variable)
    ncalls,     \* how many operations the caller has run on the tuner
    first,      \* the family method called first in a session without overrides (history variable)
    threads,    \* two callers that share the tuner: where each is in its call, and its locals
    serialized, \* whether the two callers serialize their calls
    twin        \* a second tuner that receives the same calls except for fit_params

vars == <<tuner, init, grids, call, ncalls, first, threads, serialized, twin>>

-----------------------------------------------------------------------------
(* Python values *)

None == [tag |-> "None"]

Str(s) == [tag |-> "str", s |-> s]

\* a callable of sklearn.metrics / a class of sklearn.model_selection
Callable(name) == [tag |-> "callable", name |-> name]

\* a dict object: items maps each key to its value
Dict(items) == [tag |-> "dict", items |-> items]

\* a grid entry written as a Python tuple of candidate values
Tup(vals) == [tag |-> "tuple", vals |-> vals]

\* a cross-validation splitter object
Splitter(cls, n) == [tag |-> cls, n_splits |-> n]

\* an instance attribute that was never assigned (reading it raises AttributeError)
Absent == [tag |-> "<no attribute>"]

\* an estimator instance: its class and the keyword arguments of its constructor
Estimator(cls, kwargs) == [cls |-> cls, kwargs |-> kwargs]

\* d[key] = value on a dict object
SetItem(d, key, value) ==
    Dict([k \in DOMAIN d.items \cup {key} |-> IF k = key THEN value ELSE d.items[k]])

-----------------------------------------------------------------------------
(* Bounds and input sets *)

\* how many operations a caller runs on one tuner
MaxCalls == 2

\* the split count of the splitter object the caller passes as cv
CallerSplits == 3

NCpu == 4

CallerGridNames == {"g1"}

CallerGrid0 == [C |-> Tup(<<"0.1", "1.0">>)]

CallerOptimizer == Callable("HalvingGridSearchCV")

CallerScoring == Str("accuracy")

CallerFitParams == Dict([sample_weight |-> Str("w")])

CallerCv == Splitter("ShuffleSplit", CallerSplits)

CallerClassWeight == Tup(<<"balanced", "None">>)

\* what the external optimizer does with a search: it completes, its
\* constructor raises, or its fit raises
Outcomes == {"ok", "init_raises", "fit_raises"}

-----------------------------------------------------------------------------
(* tuner.__init__ *)

__init__(kw) ==
    [x |-> kw.x,
     y |-> kw.y,
     optimizer |-> kw.optimizer,
     param_grid |-> kw.param_grid,
     scoring |-> kw.scoring,
     fit_params |-> kw.fit_params,
     n_jobs |-> kw.n_jobs,
     refit |-> kw.refit,
     verbose |-> kw.verbose,
     error_score |-> kw.error_score,
     return_train_score |-> kw.return_train_score,
     cv |-> kw.cv,
     n_splits |-> kw.n_splits,
     \* attributes the constructor does not create
     class_weight |-> Absent,
     cv_results |-> Absent,
     best_estimator |-> Absent,
     best_score |-> Absent,
     best_params |-> Absent,
     best_index |-> Absent,
     scorer |-> Absent,
     gs |-> Absent]

\* tuner(x, y): every keyword argument at its default
DefaultInit ==
    [x |-> Str("x"),
     y |-> Str("y"),
     optimizer |-> Callable("GridSearchCV"),
     param_grid |-> None,
     scoring |-> None,
     fit_params |-> None,
     n_jobs |-> NCpu,
     refit |-> TRUE,
     verbose |-> 1,
     error_score |-> Str("raise"),
     return_train_score |-> TRUE,
     cv |-> None,
     n_splits |-> 5]

\* the keyword arguments a tuner is constructed with: the defaults, or a
\* search that neither refits nor raises on a failed candidate
InitArgs ==
    {DefaultInit,
     [DefaultInit EXCEPT !.refit = FALSE, !.error_score = Str("nan"),
                         !.return_train_score = FALSE]}

-----------------------------------------------------------------------------
(* The external optimizer object, as far as run_gs uses it *)

ResultFields ==
    {"cv_results", "best_estimator", "best_score", "best_params", "best_index", "scorer", "gs"}

\* a name for the next optimizer object, different from every search whose
\* outputs are still on the tuner
NewId(self) ==
    LET used == {self[f].id : f \in {r \in ResultFields : self[r] # Absent}}
    IN  CHOOSE i \in 1..(Cardinality(used) + 1) : i \notin used

\* the attribute `name` of the fitted optimizer object gs
Attr(gs, name) == [tag |-> name, id |-> gs.id]

\* sklearn exposes best_estimator_ only when the search was run with refit
HasAttr(kw, name) == (name = "best_estimator_") => kw.refit

\* n_splits_ of a fitted search: the split count of its cv (sklearn's 5-fold when cv is None)
n_splits_(kw) == IF kw.cv = None THEN 5 ELSE kw.cv.n_splits

\* how an operation ends: the tuner it leaves, the error it raised ("none" when
\* it returned) and the optimizer invocations it made
Return(self, searches) == [self |-> self, raised |-> "none", searches |-> searches]

Raise(self, error, searches) == [self |-> self, raised |-> error, searches |-> searches]

-----------------------------------------------------------------------------
(* tuner.run_gs *)

\* the optimizer instantiated without the tuner's cv
search_kwargs_without_cv(self, estimator) ==
    [estimator |-> estimator,
     param_grid |-> self.param_grid,
     scoring |-> self.scoring,
     n_jobs |-> self.n_jobs,
     cv |-> None,
     refit |-> self.refit,
     verbose |-> self.verbose,
     error_score |-> self.error_score,
     return_train_score |-> self.return_train_score]

\* the optimizer instantiated with the tuner's fit_params as well
search_kwargs_with_fit_params(self, estimator) ==
    [estimator |-> estimator,
     param_grid |-> self.param_grid,
     scoring |-> self.scoring,
     fit_params |-> self.fit_params,
     n_jobs |-> self.n_jobs,
     cv |-> self.cv,
     refit |-> self.refit,
     verbose |-> self.verbose,
     error_score |-> self.error_score,
     return_train_score |-> self.return_train_score]

\* the arguments the optimizer is instantiated with
search_kwargs(self, estimator) ==
    [estimator |-> estimator,
     param_grid |-> self.param_grid,
     scoring |-> self.scoring,
     n_jobs |-> self.n_jobs,
     cv |-> self.cv,
     refit |-> self.refit,
     verbose |-> self.verbose,
     error_score |-> self.error_score,
     return_train_score |-> self.return_train_score]

\* one invocation of the optimizer: the class called, its arguments, the
\* object gs it made, the arguments of gs.fit (<<>> when fit was not called)
\* and the error the optimizer raised
Invocation(optimizer, kw, gs, fit, error) ==
    [optimizer |-> optimizer, kwargs |-> kw, gs |-> gs, fit |-> fit, error |-> error]

\* self.cv_results = gs.cv_results_
copy_cv_results(self, gs) == [self EXCEPT !.cv_results = Attr(gs, "cv_results_")]

\* the assignments from self.best_estimator to self.gs
copy_outputs(self, gs, kw) ==
    [self EXCEPT !.best_estimator = Attr(gs, "best_estimator_"),
                 !.best_score = Attr(gs, "best_score_"),
                 !.best_params = Attr(gs, "best_params_"),
                 !.best_index = Attr(gs, "best_index_"),
                 !.scorer = Attr(gs, "scorer_"),
                 !.n_splits = n_splits_(kw),
                 !.gs = gs]

\* run_gs that leaves self.best_score as it was
run_gs_keeps_best_score(self, estimator, out) ==
    LET kw == search_kwargs(self, estimator)
        gs == [tag |-> "gs", id |-> NewId(self)]
        fit == <<self.x, self.y>>
        s1 == copy_cv_results(self, gs)
    IN  IF out = "init_raises"
        THEN Raise(self, "optimizer() error",
                   <<Invocation(self.optimizer, kw, gs, <<>>, "optimizer() error")>>)
        ELSE IF out = "fit_raises"
        THEN Raise(self, "gs.fit() error",
                   <<Invocation(self.optimizer, kw, gs, fit, "gs.fit() error")>>)
        ELSE IF ~HasAttr(kw, "best_estimator_")
        THEN Raise(s1, "AttributeError", <<Invocation(self.optimizer, kw, gs, fit, "none")>>)
        ELSE Return([copy_outputs(s1, gs, kw) EXCEPT !.best_score = self.best_score],
                    <<Invocation(self.optimizer, kw, gs, fit, "none")>>)

\* run_gs that copies gs.cv_results_ before it looks at the outcome of the fit
run_gs_copies_before_fit(self, estimator, out) ==
    LET kw == search_kwargs(self, estimator)
        gs == [tag |-> "gs", id |-> NewId(self)]
        fit == <<self.x, self.y>>
        s1 == copy_cv_results(self, gs)
    IN  IF out = "init_raises"
        THEN Raise(self, "optimizer() error",
                   <<Invocation(self.optimizer, kw, gs, <<>>, "optimizer() error")>>)
        ELSE IF out = "fit_raises"
        THEN Raise(s1, "gs.fit() error",
                   <<Invocation(self.optimizer, kw, gs, fit, "gs.fit() error")>>)
        ELSE IF ~HasAttr(kw, "best_estimator_")
        THEN Raise(s1, "AttributeError", <<Invocation(self.optimizer, kw, gs, fit, "none")>>)
        ELSE Return(copy_outputs(s1, gs, kw),
                    <<Invocation(self.optimizer, kw, gs, fit, "none")>>)

\* run_gs that always asks the optimizer to raise on a failed candidate
run_gs_always_raise(self, estimator, out) ==
    LET kw == [search_kwargs(self, estimator) EXCEPT !.error_score = Str("raise")]
        gs == [tag |-> "gs", id |-> NewId(self)]
        fit == <<self.x, self.y>>
        s1 == copy_cv_results(self, gs)
    IN  IF out = "init_raises"
        THEN Raise(self, "optimizer() error",
                   <<Invocation(self.optimizer, kw, gs, <<>>, "optimizer() error")>>)
        ELSE IF out = "fit_raises"
        THEN Raise(self, "gs.fit() error",
                   <<Invocation(self.optimizer, kw, gs, fit, "gs.fit() error")>>)
        ELSE IF ~HasAttr(kw, "best_estimator_")
        THEN Raise(s1, "AttributeError", <<Invocation(self.optimizer, kw, gs, fit, "none")>>)
        ELSE Return(copy_outputs(s1, gs, kw),
                    <<Invocation(self.optimizer, kw, gs, fit, "none")>>)

run_gs(self, estimator, out) ==
    LET kw == search_kwargs(self, estimator)
        gs == [tag |-> "gs", id |-> NewId(self)]
        fit == <<self.x, self.y>>
        \* the copy stops at best_estimator_ when the optimizer does not expose it
        s1 == copy_cv_results(self, gs)
    IN  IF out = "init_raises"
        THEN Raise(self, "optimizer() error",
                   <<Invocation(self.optimizer, kw, gs, <<>>, "optimizer() error")>>)
        ELSE IF out = "fit_raises"
        THEN Raise(self, "gs.fit() error",
                   <<Invocation(self.optimizer, kw, gs, fit, "gs.fit() error")>>)
        ELSE IF ~HasAttr(kw, "best_estimator_")
        THEN Raise(s1, "AttributeError", <<Invocation(self.optimizer, kw, gs, fit, "none")>>)
        ELSE Return(copy_outputs(s1, gs, kw),
                    <<Invocation(self.optimizer, kw, gs, fit, "none")>>)

-----------------------------------------------------------------------------
(* The configuration blocks the family methods share *)

check_optimizer(self, optimizer) ==
    IF optimizer # None THEN [self EXCEPT !.optimizer = optimizer] ELSE self

\* the method's own default grid applied whenever the call passes none
set_param_grid_own_default(self, param_grid, default) ==
    [self EXCEPT !.param_grid = IF param_grid = None THEN default ELSE param_grid]

set_param_grid(self, param_grid, default) ==
    IF param_grid = None
    THEN IF self.param_grid = None THEN [self EXCEPT !.param_grid = default] ELSE self
    ELSE [self EXCEPT !.param_grid = param_grid]

set_scoring(self, scoring, default) ==
    IF scoring = None
    THEN IF self.scoring = None THEN [self EXCEPT !.scoring = default] ELSE self
    ELSE [self EXCEPT !.scoring = scoring]

\* fit_params reset when the call passes none
set_fit_params_resets(self, fit_params) ==
    [self EXCEPT !.fit_params = fit_params]

set_fit_params(self, fit_params) ==
    IF fit_params # None THEN [self EXCEPT !.fit_params = fit_params] ELSE self

\* cls is the splitter class the method names for its default
set_cv(self, cv, cls) ==
    IF cv = None
    THEN IF self.cv = None THEN [self EXCEPT !.cv = Splitter(cls, self.n_splits)] ELSE self
    ELSE [self EXCEPT !.cv = cv]

\* the five blocks, in the order the methods run them
configure(self, a, grid, scoring, cls) ==
    set_cv(set_fit_params(set_scoring(set_param_grid(check_optimizer(self, a.optimizer),
        a.param_grid, grid), a.scoring, scoring), a.fit_params), a.cv, cls)

-----------------------------------------------------------------------------
(* Candidate values the default grids share *)

Bool(b) == [tag |-> "bool", b |-> b]

TrueFalse == Tup(<<"True", "False">>)

MaxFeatures == Tup(<<"sqrt", "log2", "None">>)

MinSamplesSplit == Tup(<<"2", "0.01", "0.1">>)

MaxDepth == Tup(<<"1", "10", "None">>)

NEstimators == Tup(<<"10", "100", "500">>)

ExplainedVariance == Callable("metrics.explained_variance_score")

-----------------------------------------------------------------------------
(* The family methods.  a is the record of keyword arguments, out the       *)
(* outcome of the optimizer.                                                *)

LinearRegressionGrid ==
    Dict([normalize |-> TrueFalse, fit_intercept |-> TrueFalse])

\* LinearRegression that runs the search before it looks at its arguments
LinearRegression_search_first(self, a, out) ==
    LET r == run_gs(self, Estimator("linear_model.LinearRegression", {}), out)
    IN  [r EXCEPT !.self = configure(r.self, a, LinearRegressionGrid, ExplainedVariance,
                                     "StratifiedKFold")]

LinearRegression(self, a, out) ==
    run_gs(configure(self, a, LinearRegressionGrid, ExplainedVariance, "StratifiedKFold"),
           Estimator("linear_model.LinearRegression", {}), out)

LogisticRegressionGrid ==
    Dict([C |-> Tup(<<"1e-2", "1e-1", "1e0", "1e1">>),
          tol |-> Tup(<<"1e-3", "1e-4", "1e-5">>),
          fit_intercept |-> TrueFalse])

\* LogisticRegression with the scoring default of the classifiers that follow it
LogisticRegression_neg_log_loss(self, a, out) ==
    run_gs(configure(self, a, LogisticRegressionGrid, Str("neg_log_loss"), "StratifiedKFold"),
           Estimator("linear_model.LogisticRegression", {}), out)

LogisticRegression(self, a, out) ==
    run_gs(configure(self, a, LogisticRegressionGrid, Str("roc_auc"), "StratifiedKFold"),
           Estimator("linear_model.LogisticRegression", {}), out)

DecisionTreeClassifierGrid ==
    Dict([criterion |-> Tup(<<"gini", "entropy">>),
          splitter |-> Tup(<<"best", "random">>),
          max_features |-> MaxFeatures,
          max_depth |-> Tup(<<"2", "5", "10", "None">>),
          min_samples_split |-> MinSamplesSplit,
          min_impurity_split |-> Tup(<<"1e-7", "1e-6">>)])

\* DecisionTreeClassifier with the splitter default of the forest regressors
DecisionTreeClassifier_kfold(self, a, out) ==
    run_gs(configure(self, a, DecisionTreeClassifierGrid, Str("neg_log_loss"), "KFold"),
           Estimator("tree.DecisionTreeClassifier", {}), out)

DecisionTreeClassifier(self, a, out) ==
    run_gs(configure(self, a, DecisionTreeClassifierGrid, Str("neg_log_loss"), "StratifiedKFold"),
           Estimator("tree.DecisionTreeClassifier", {}), out)

SVCGrid ==
    Dict([C |-> Tup(<<"1e-3", "1e-2", "1e-1", "1e0", "1e1">>),
          kernel |-> Tup(<<"rbf", "linear">>),
          gamma |-> Tup(<<"1e-3", "1e-4", "1e-5", "1e-6", "1e-7">>)])

\* SVC that hands its class_weight to the estimator, as RandomForestClassifier does
SVC_passes_class_weight(self, a, out) ==
    LET s1 == check_optimizer(self, a.optimizer)
        \* the local names param_grid, scoring and cv, assigned to the fields unconditionally
        param_grid == IF a.param_grid = None /\ s1.param_grid = None
                      THEN SVCGrid ELSE a.param_grid
        s2 == [s1 EXCEPT !.param_grid = param_grid]
        scoring == IF a.scoring = None /\ s2.scoring = None
                   THEN Str("neg_log_loss") ELSE a.scoring
        s3 == [s2 EXCEPT !.scoring = scoring]
        s4 == set_fit_params(s3, a.fit_params)
        cv == IF a.cv = None /\ s4.cv = None
              THEN Splitter("StratifiedKFold", s4.n_splits) ELSE a.cv
        s5 == [s4 EXCEPT !.cv = cv]
        class_weight == IF a.class_weight # None /\ s5.class_weight = None
                        THEN Str("balanced") ELSE a.class_weight
    IN  IF a.class_weight # None /\ s5.class_weight = Absent
        THEN Raise(s5, "AttributeError", <<>>)
        ELSE IF s5.param_grid = None
        THEN Raise(s5, "TypeError", <<>>)
        ELSE run_gs([s5 EXCEPT !.param_grid = SetItem(@, "class_weight", class_weight)],
                    Estimator("svm.SVC", {<<"class_weight", class_weight>>}), out)

\* SVC with the assignments of param_grid, scoring and cv guarded as in the other methods
SVC_keeps_persisted(self, a, out) ==
    LET s1 == check_optimizer(self, a.optimizer)
        \* the local names param_grid, scoring and cv, assigned to the fields unconditionally
        param_grid == IF a.param_grid = None /\ s1.param_grid = None
                      THEN SVCGrid ELSE a.param_grid
        s2 == set_param_grid(s1, a.param_grid, SVCGrid)
        scoring == IF a.scoring = None /\ s2.scoring = None
                   THEN Str("neg_log_loss") ELSE a.scoring
        s3 == set_scoring(s2, a.scoring, Str("neg_log_loss"))
        s4 == set_fit_params(s3, a.fit_params)
        cv == IF a.cv = None /\ s4.cv = None
              THEN Splitter("StratifiedKFold", s4.n_splits) ELSE a.cv
        s5 == set_cv(s4, a.cv, "StratifiedKFold")
        class_weight == IF a.class_weight # None /\ s5.class_weight = None
                        THEN Str("balanced") ELSE a.class_weight
    IN  IF a.class_weight # None /\ s5.class_weight = Absent
        THEN Raise(s5, "AttributeError", <<>>)
        ELSE IF s5.param_grid = None
        THEN Raise(s5, "TypeError", <<>>)
        ELSE run_gs([s5 EXCEPT !.param_grid = SetItem(@, "class_weight", class_weight)],
                    Estimator("svm.SVC", {}), out)

\* SVC that takes a missing class_weight attribute for None
SVC_class_weight_optional(self, a, out) ==
    LET s1 == check_optimizer(self, a.optimizer)
        \* the local names param_grid, scoring and cv, assigned to the fields unconditionally
        param_grid == IF a.param_grid = None /\ s1.param_grid = None
                      THEN SVCGrid ELSE a.param_grid
        s2 == [s1 EXCEPT !.param_grid = param_grid]
        scoring == IF a.scoring = None /\ s2.scoring = None
                   THEN Str("neg_log_loss") ELSE a.scoring
        s3 == [s2 EXCEPT !.scoring = scoring]
        s4 == set_fit_params(s3, a.fit_params)
        cv == IF a.cv = None /\ s4.cv = None
              THEN Splitter("StratifiedKFold", s4.n_splits) ELSE a.cv
        s5 == [s4 EXCEPT !.cv = cv]
        class_weight == IF a.class_weight # None /\ s5.class_weight \in {None, Absent}
                        THEN Str("balanced") ELSE a.class_weight
    IN  IF FALSE
        THEN Raise(s5, "AttributeError", <<>>)
        ELSE IF s5.param_grid = None
        THEN Raise(s5, "TypeError", <<>>)
        ELSE run_gs([s5 EXCEPT !.param_grid = SetItem(@, "class_weight", class_weight)],
                    Estimator("svm.SVC", {}), out)

\* SVC that falls back on its default grid whenever the call passes none
SVC_default_grid_when_none_passed(self, a, out) ==
    LET s1 == check_optimizer(self, a.optimizer)
        \* the local names param_grid, scoring and cv, assigned to the fields unconditionally
        param_grid == IF a.param_grid = None
                      THEN SVCGrid ELSE a.param_grid
        s2 == [s1 EXCEPT !.param_grid = param_grid]
        scoring == IF a.scoring = None /\ s2.scoring = None
                   THEN Str("neg_log_loss") ELSE a.scoring
        s3 == [s2 EXCEPT !.scoring = scoring]
        s4 == set_fit_params(s3, a.fit_params)
        cv == IF a.cv = None /\ s4.cv = None
              THEN Splitter("StratifiedKFold", s4.n_splits) ELSE a.cv
        s5 == [s4 EXCEPT !.cv = cv]
        class_weight == IF a.class_weight # None /\ s5.class_weight = None
                        THEN Str("balanced") ELSE a.class_weight
    IN  IF a.class_weight # None /\ s5.class_weight = Absent
        THEN Raise(s5, "AttributeError", <<>>)
        ELSE IF s5.param_grid = None
        THEN Raise(s5, "TypeError", <<>>)
        ELSE run_gs([s5 EXCEPT !.param_grid = SetItem(@, "class_weight", class_weight)],
                    Estimator("svm.SVC", {}), out)

\* SVC that never replaces a passed class_weight by "balanced"
SVC_stores_passed_class_weight(self, a, out) ==
    LET s1 == check_optimizer(self, a.optimizer)
        \* the local names param_grid, scoring and cv, assigned to the fields unconditionally
        param_grid == IF a.param_grid = None /\ s1.param_grid = None
                      THEN SVCGrid ELSE a.param_grid
        s2 == [s1 EXCEPT !.param_grid = param_grid]
        scoring == IF a.scoring = None /\ s2.scoring = None
                   THEN Str("neg_log_loss") ELSE a.scoring
        s3 == [s2 EXCEPT !.scoring = scoring]
        s4 == set_fit_params(s3, a.fit_params)
        cv == IF a.cv = None /\ s4.cv = None
              THEN Splitter("StratifiedKFold", s4.n_splits) ELSE a.cv
        s5 == [s4 EXCEPT !.cv = cv]
        class_weight == IF FALSE
                        THEN Str("balanced") ELSE a.class_weight
    IN  IF a.class_weight # None /\ s5.class_weight = Absent
        THEN Raise(s5, "AttributeError", <<>>)
        ELSE IF s5.param_grid = None
        THEN Raise(s5, "TypeError", <<>>)
        ELSE run_gs([s5 EXCEPT !.param_grid = SetItem(@, "class_weight", class_weight)],
                    Estimator("svm.SVC", {}), out)

SVC(self, a, out) ==
    LET s1 == check_optimizer(self, a.optimizer)
        \* the local names param_grid, scoring and cv, assigned to the fields unconditionally
        param_grid == IF a.param_grid = None /\ s1.param_grid = None
                      THEN SVCGrid ELSE a.param_grid
        s2 == [s1 EXCEPT !.param_grid = param_grid]
        scoring == IF a.scoring = None /\ s2.scoring = None
                   THEN Str("neg_log_loss") ELSE a.scoring
        s3 == [s2 EXCEPT !.scoring = scoring]
        s4 == set_fit_params(s3, a.fit_params)
        cv == IF a.cv = None /\ s4.cv = None
              THEN Splitter("StratifiedKFold", s4.n_splits) ELSE a.cv
        s5 == [s4 EXCEPT !.cv = cv]
        class_weight == IF a.class_weight # None /\ s5.class_weight = None
                        THEN Str("balanced") ELSE a.class_weight
    IN  IF a.class_weight # None /\ s5.class_weight = Absent
        THEN Raise(s5, "AttributeError", <<>>)
        ELSE IF s5.param_grid = None
        THEN Raise(s5, "TypeError", <<>>)
        ELSE run_gs([s5 EXCEPT !.param_grid = SetItem(@, "class_weight", class_weight)],
                    Estimator("svm.SVC", {}), out)

SVRGrid ==
    Dict([C |-> Tup(<<"1e-2", "1e-1", "1e0", "1e1">>),
          epsilon |-> Tup(<<"0.01", "0.1", "1">>),
          kernel |-> Tup(<<"rbf", "linear", "poly", "sigmoid">>),
          gamma |-> Tup(<<"1e-2", "1e-3", "1e-4">>)])

SVR(self, a, out) ==
    run_gs(configure(self, a, SVRGrid, ExplainedVariance, "StratifiedKFold"),
           Estimator("svm.SVR", {}), out)

LinearSVCGrid ==
    Dict([C |-> Tup(<<"1e-2", "1e-1", "1e0", "1e1">>),
          loss |-> Tup(<<"hinge", "squared_hinge">>),
          tol |-> Tup(<<"1e-3", "1e-4", "1e-5">>),
          fit_intercept |-> TrueFalse])

LinearSVC(self, a, out) ==
    run_gs(configure(self, a, LinearSVCGrid, Str("neg_log_loss"), "StratifiedKFold"),
           Estimator("svm.LinearSVC", {}), out)

LinearSVRGrid ==
    Dict([C |-> Tup(<<"1e-2", "1e-1", "1e0", "1e1">>),
          loss |-> Tup(<<"epsilon_insensitive", "squared_epsilon_insensitive">>),
          epsilon |-> Tup(<<"0", "0.01", "0.1">>),
          dual |-> Bool(FALSE),
          tol |-> Tup(<<"1e-3", "1e-4", "1e-5">>),
          fit_intercept |-> TrueFalse])

LinearSVR(self, a, out) ==
    run_gs(configure(self, a, LinearSVRGrid, ExplainedVariance, "StratifiedKFold"),
           Estimator("svm.LinearSVR", {}), out)

AdaBoostClassifierGrid ==
    Dict([n_estimators |-> Tup(<<"25", "50", "75", "100">>),
          learning_rate |-> Tup(<<"0.1", "0.5", "1.0">>)])

AdaBoostClassifier(self, a, out) ==
    run_gs(configure(self, a, AdaBoostClassifierGrid, Str("neg_log_loss"), "StratifiedKFold"),
           Estimator("ensemble.AdaBoostClassifier", {}), out)

AdaBoostRegressorGrid ==
    Dict([n_estimators |-> Tup(<<"25", "50", "75", "100">>),
          learning_rate |-> Tup(<<"0.1", "0.5", "1.0">>),
          loss |-> Tup(<<"linear", "exponential", "square">>)])

AdaBoostRegressor(self, a, out) ==
    run_gs(configure(self, a, AdaBoostRegressorGrid, ExplainedVariance, "StratifiedKFold"),
           Estimator("ensemble.AdaBoostRegressor", {}), out)

GradientBoostClassifierGrid ==
    Dict([n_estimators |-> NEstimators,
          learning_rate |-> Tup(<<"0.01", "0.1", "0.5">>),
          max_features |-> MaxFeatures,
          max_depth |-> MaxDepth,
          min_samples_split |-> MinSamplesSplit])

GradientBoostClassifier(self, a, out) ==
    run_gs(configure(self, a, GradientBoostClassifierGrid, Str("neg_log_loss"), "StratifiedKFold"),
           Estimator("ensemble.GradientBoostingClassifier", {}), out)

GradientBoostRegressorGrid ==
    Dict([n_estimators |-> NEstimators,
          learning_rate |-> Tup(<<"0.01", "0.1", "0.5">>),
          max_features |-> MaxFeatures,
          max_depth |-> MaxDepth,
          min_samples_split |-> MinSamplesSplit])

GradientBoostRegressor(self, a, out) ==
    run_gs(configure(self, a, GradientBoostRegressorGrid, Str("neg_mean_absolute_error"), "KFold"),
           Estimator("ensemble.GradientBoostingRegressor", {}), out)

RandomForestClassifierGrid ==
    Dict([criterion |-> Tup(<<"gini", "entropy">>),
          n_estimators |-> NEstimators,
          max_features |-> MaxFeatures,
          max_depth |-> MaxDepth,
          min_samples_split |-> MinSamplesSplit])

RandomForestClassifier(self, a, out) ==
    run_gs(configure(self, a, RandomForestClassifierGrid, Str("neg_log_loss"), "StratifiedKFold"),
           Estimator("ensemble.RandomForestClassifier", {<<"class_weight", a.class_weight>>}), out)

RandomForestRegressorGrid ==
    Dict([n_estimators |-> NEstimators,
          max_features |-> MaxFeatures,
          max_depth |-> MaxDepth,
          min_samples_split |-> MinSamplesSplit])

RandomForestRegressor(self, a, out) ==
    run_gs(configure(self, a, RandomForestRegressorGrid, Str("neg_mean_absolute_error"), "KFold"),
           Estimator("ensemble.RandomForestRegressor", {}), out)

-----------------------------------------------------------------------------
(* The calls a caller makes *)

NoArgs ==
    [optimizer |-> None, param_grid |-> None, scoring |-> None, fit_params |-> None,
     cv |-> None, class_weight |-> None]

Passed(a) == {f \in DOMAIN a : a[f] # None}

\* a call passes no keyword argument, one of them, or all of them;
\* withClassWeight tells whether the method has a class_weight parameter
Overrides(withClassWeight) ==
    LET keywords == DOMAIN NoArgs \ (IF withClassWeight THEN {} ELSE {"class_weight"})
    IN  {{}} \cup {{f} : f \in keywords} \cup {keywords}

\* the value the caller passes for keyword f; ref names the caller's dict
\* object that is passed as param_grid
CallerValue(f, ref) ==
    CASE f = "optimizer" -> CallerOptimizer
      [] f = "param_grid" -> Dict(grids[ref])
      [] f = "scoring" -> CallerScoring
      [] f = "fit_params" -> CallerFitParams
      [] f = "cv" -> CallerCv
      [] f = "class_weight" -> CallerClassWeight

\* the keyword arguments of a call that passes the keywords in p
Args(p, ref) == [f \in DOMAIN NoArgs |-> IF f \in p THEN CallerValue(f, ref) ELSE None]

\* the operation `method` was called with arguments a and ended as r
Finish(method, a, r) ==
    /\ ncalls' = ncalls + 1
    /\ tuner' = r.self
    /\ call' = [method |-> method, args |-> a, raised |-> r.raised, searches |-> r.searches]
    /\ UNCHANGED <<init, first, threads, serialized, twin>>

CallLinearRegression ==
    /\ ncalls < MaxCalls
    /\ \E ref \in CallerGridNames, p \in Overrides(FALSE), out \in Outcomes :
          LET a == Args(p, ref)
          IN  Finish("LinearRegression", a, LinearRegression(tuner, a, out))
    /\ UNCHANGED grids

CallLogisticRegression ==
    /\ ncalls < MaxCalls
    /\ \E ref \in CallerGridNames, p \in Overrides(FALSE), out \in Outcomes :
          LET a == Args(p, ref)
          IN  Finish("LogisticRegression", a, LogisticRegression(tuner, a, out))
    /\ UNCHANGED grids

CallDecisionTreeClassifier ==
    /\ ncalls < MaxCalls
    /\ \E ref \in CallerGridNames, p \in Overrides(FALSE), out \in Outcomes :
          LET a == Args(p, ref)
          IN  Finish("DecisionTreeClassifier", a, DecisionTreeClassifier(tuner, a, out))
    /\ UNCHANGED grids

\* SVC adds its class_weight entry to the dict object it was passed
CallSVC ==
    /\ ncalls < MaxCalls
    /\ \E ref \in CallerGridNames, p \in Overrides(TRUE), out \in Outcomes :
          LET a == Args(p, ref)
              r == SVC(tuner, a, out)
          IN  /\ Finish("SVC", a, r)
              /\ grids' = IF "param_grid" \in p
                          THEN [grids EXCEPT ![ref] = r.self.param_grid.items]
                          ELSE grids

CallSVR ==
    /\ ncalls < MaxCalls
    /\ \E ref \in CallerGridNames, p \in Overrides(FALSE), out \in Outcomes :
          LET a == Args(p, ref)
          IN  Finish("SVR", a, SVR(tuner, a, out))
    /\ UNCHANGED grids

CallLinearSVC ==
    /\ ncalls < MaxCalls
    /\ \E ref \in CallerGridNames, p \in Overrides(FALSE), out \in Outcomes :
          LET a == Args(p, ref)
          IN  Finish("LinearSVC", a, LinearSVC(tuner, a, out))
    /\ UNCHANGED grids

CallLinearSVR ==
    /\ ncalls < MaxCalls
    /\ \E ref \in CallerGridNames, p \in Overrides(FALSE), out \in Outcomes :
          LET a == Args(p, ref)
          IN  Finish("LinearSVR", a, LinearSVR(tuner, a, out))
    /\ UNCHANGED grids

CallAdaBoostClassifier ==
    /\ ncalls < MaxCalls
    /\ \E ref \in CallerGridNames, p \in Overrides(FALSE), out \in Outcomes :
          LET a == Args(p, ref)
          IN  Finish("AdaBoostClassifier", a, AdaBoostClassifier(tuner, a, out))
    /\ UNCHANGED grids

CallAdaBoostRegressor ==
    /\ ncalls < MaxCalls
    /\ \E ref \in CallerGridNames, p \in Overrides(FALSE), out \in Outcomes :
          LET a == Args(p, ref)
          IN  Finish("AdaBoostRegressor", a, AdaBoostRegressor(tuner, a, out))
    /\ UNCHANGED grids

CallGradientBoostClassifier ==
    /\ ncalls < MaxCalls
    /\ \E ref \in CallerGridNames, p \in Overrides(FALSE), out \in Outcomes :
          LET a == Args(p, ref)
          IN  Finish("GradientBoostClassifier", a, GradientBoostClassifier(tuner, a, out))
    /\ UNCHANGED grids

CallGradientBoostRegressor ==
    /\ ncalls < MaxCalls
    /\ \E ref \in CallerGridNames, p \in Overrides(FALSE), out \in Outcomes :
          LET a == Args(p, ref)
          IN  Finish("GradientBoostRegressor", a, GradientBoostRegressor(tuner, a, out))
    /\ UNCHANGED grids

CallRandomForestClassifier ==
    /\ ncalls < MaxCalls
    /\ \E ref \in CallerGridNames, p \in Overrides(TRUE), out \in Outcomes :
          LET a == Args(p, ref)
          IN  Finish("RandomForestClassifier", a, RandomForestClassifier(tuner, a, out))
    /\ UNCHANGED grids

CallRandomForestRegressor ==
    /\ ncalls < MaxCalls
    /\ \E ref \in CallerGridNames, p \in Overrides(FALSE), out \in Outcomes :
          LET a == Args(p, ref)
          IN  Finish("RandomForestRegressor", a, RandomForestRegressor(tuner, a, out))
    /\ UNCHANGED grids

\* the values a caller assigns to the attribute class_weight from outside
ClassWeightValues == {None, Str("balanced")}

\* tuner.class_weight = value, the only way the attribute SVC reads comes to exist
SetClassWeight ==
    \E value \in ClassWeightValues :
        /\ ncalls < MaxCalls
        /\ ncalls' = ncalls + 1
        /\ tuner' = [tuner EXCEPT !.class_weight = value]
        /\ call' = [method |-> "class_weight =", args |-> [NoArgs EXCEPT !.class_weight = value],
                    raised |-> "none", searches |-> <<>>]
        /\ UNCHANGED <<init, grids, first, threads, serialized, twin>>

-----------------------------------------------------------------------------
(* The specification *)

\* the two callers of a shared tuner
Threads == {1, 2}

\* a caller that has not called yet: resolved holds what the tuner's param_grid,
\* scoring and cv were when the call's block for that field had run, kw the
\* arguments its optimizer was instantiated with
IdleThread ==
    [pc |-> "idle", method |-> "", args |-> NoArgs,
     resolved |-> [param_grid |-> Absent, scoring |-> Absent, cv |-> Absent],
     kw |-> Absent, raised |-> "none"]

\* t = tuner(x, y, **init), with init one of args
ConstructedWith(args) ==
    /\ init \in args
    /\ tuner = __init__(init)
    /\ grids = [g \in CallerGridNames |-> CallerGrid0]
    /\ call = [method |-> "__init__", args |-> NoArgs, raised |-> "none", searches |-> <<>>]
    /\ ncalls = 0
    /\ first = "none"
    /\ threads = [t \in Threads |-> IdleThread]

Constructed == ConstructedWith(InitArgs)

Init ==
    /\ Constructed
    /\ serialized = TRUE
    /\ twin = Absent

Next ==
    \/ CallLinearRegression
    \/ CallLogisticRegression
    \/ CallDecisionTreeClassifier
    \/ CallSVC
    \/ CallSVR
    \/ CallLinearSVC
    \/ CallLinearSVR
    \/ CallAdaBoostClassifier
    \/ CallAdaBoostRegressor
    \/ CallGradientBoostClassifier
    \/ CallGradientBoostRegressor
    \/ CallRandomForestClassifier
    \/ CallRandomForestRegressor
    \/ SetClassWeight

Spec == Init /\ [][Next]_vars

-----------------------------------------------------------------------------
(* Longer sessions: MaxSeqCalls calls in a row that pass cv or nothing *)

Methods ==
    {"LinearRegression", "LogisticRegression", "DecisionTreeClassifier", "SVC", "SVR",
     "LinearSVC", "LinearSVR", "AdaBoostClassifier", "AdaBoostRegressor",
     "GradientBoostClassifier", "GradientBoostRegressor", "RandomForestClassifier",
     "RandomForestRegressor"}

\* getattr(self, method)(**a)
Apply(method, self, a, out) ==
    CASE method = "LinearRegression" -> LinearRegression(self, a, out)
      [] method = "LogisticRegression" -> LogisticRegression(self, a, out)
      [] method = "DecisionTreeClassifier" -> DecisionTreeClassifier(self, a, out)
      [] method = "SVC" -> SVC(self, a, out)
      [] method = "SVR" -> SVR(self, a, out)
      [] method = "LinearSVC" -> LinearSVC(self, a, out)
      [] method = "LinearSVR" -> LinearSVR(self, a, out)
      [] method = "AdaBoostClassifier" -> AdaBoostClassifier(self, a, out)
      [] method = "AdaBoostRegressor" -> AdaBoostRegressor(self, a, out)
      [] method = "GradientBoostClassifier" -> GradientBoostClassifier(self, a, out)
      [] method = "GradientBoostRegressor" -> GradientBoostRegressor(self, a, out)
      [] method = "RandomForestClassifier" -> RandomForestClassifier(self, a, out)
      [] method = "RandomForestRegressor" -> RandomForestRegressor(self, a, out)

MaxSeqCalls == 3

CallInSequence ==
    /\ ncalls < MaxSeqCalls
    /\ \E method \in Methods, ref \in CallerGridNames, p \in {{}, {"cv"}}, out \in Outcomes :
          LET a == Args(p, ref)
          IN  Finish(method, a, Apply(method, tuner, a, out))
    /\ UNCHANGED grids

NextSeq == CallInSequence

SpecSeq == Init /\ [][NextSeq]_vars

-----------------------------------------------------------------------------
(* Sessions of calls that pass no keyword argument, to methods other than SVC *)

MaxPlainCalls == 3

CallNoOverride ==
    /\ ncalls < MaxPlainCalls
    /\ \E method \in Methods \ {"SVC"}, out \in Outcomes :
          LET r == Apply(method, tuner, NoArgs, out)
          IN  /\ ncalls' = ncalls + 1
              /\ tuner' = r.self
              /\ call' = [method |-> method, args |-> NoArgs, raised |-> r.raised,
                          searches |-> r.searches]
              /\ first' = IF ncalls = 0 THEN method ELSE first
    /\ UNCHANGED <<init, grids, threads, serialized, twin>>

NextPlain == CallNoOverride

SpecPlain == Init /\ [][NextPlain]_vars

-----------------------------------------------------------------------------
(* SVC on tuners constructed with or without param_grid, scoring and cv *)

ConfiguredInitArgs ==
    {[DefaultInit EXCEPT !.param_grid = g, !.scoring = sc, !.cv = c] :
        g \in {None, Dict(CallerGrid0)}, sc \in {None, CallerScoring}, c \in {None, CallerCv}}

InitSVC ==
    /\ ConstructedWith(ConfiguredInitArgs)
    /\ serialized = TRUE
    /\ twin = Absent

NextSVC ==
    \/ CallSVC
    \/ SetClassWeight

SpecSVC == InitSVC /\ [][NextSVC]_vars

-----------------------------------------------------------------------------
(* Two tuners that differ only in fit_params.  They receive the same calls, *)
(* which pass fit_params or nothing, except for the fit_params argument;    *)
(* the optimizer, given the same arguments, ends the same way for both.     *)

MaxTwinCalls == 2

FitParamsValues == {None, CallerFitParams}

CallTwin ==
    /\ ncalls < MaxTwinCalls
    /\ \E method \in Methods, fp \in FitParamsValues, twinfp \in FitParamsValues,
          out \in Outcomes :
          LET a == [NoArgs EXCEPT !.fit_params = fp]
              b == [a EXCEPT !.fit_params = twinfp]
              r == Apply(method, tuner, a, out)
              q == Apply(method, twin.tuner, b, out)
          IN  /\ ncalls' = ncalls + 1
              /\ tuner' = r.self
              /\ call' = [method |-> method, args |-> a, raised |-> r.raised,
                          searches |-> r.searches]
              /\ twin' = [tuner |-> q.self, raised |-> q.raised, searches |-> q.searches]
    /\ UNCHANGED <<init, grids, first, threads, serialized>>

InitTwin ==
    /\ Constructed
    /\ serialized = TRUE
    /\ \E fp \in FitParamsValues :
          twin = [tuner |-> __init__([init EXCEPT !.fit_params = fp]), raised |-> "none",
                  searches |-> <<>>]

NextTwin == CallTwin

SpecTwin == InitTwin /\ [][NextTwin]_vars

-----------------------------------------------------------------------------
(* Two callers on one tuner.  Each runs one call of LinearRegression or      *)
(* LogisticRegression; a step is one block of the method body or of run_gs.  *)
(* Each block is taken as atomic: the interleavings of the model are a       *)
(* subset of those the interpreter allows between single attribute accesses. *)

ThreadMethods == {"LinearRegression", "LogisticRegression"}

\* the keywords a caller passes: none, or one of the three resolved fields
ThreadOverrides == {{}} \cup {{f} : f \in {"param_grid", "scoring", "cv"}}

\* the defaults and the estimator the two methods name
Family(method) ==
    IF method = "LinearRegression"
    THEN [grid |-> LinearRegressionGrid, scoring |-> ExplainedVariance, cls |-> "StratifiedKFold",
          estimator |-> Estimator("linear_model.LinearRegression", {})]
    ELSE [grid |-> LogisticRegressionGrid, scoring |-> Str("roc_auc"), cls |-> "StratifiedKFold",
          estimator |-> Estimator("linear_model.LogisticRegression", {})]

InCall(t) == threads[t].pc \notin {"idle", "done"}

\* thread t may run: callers that serialize wait until the other call is over
MayRun(t) == serialized => \A u \in Threads \ {t} : ~InCall(u)

\* thread t moves from `from` to `to`, leaving the tuner as self
Step(t, from, to, self) ==
    /\ threads[t].pc = from
    /\ MayRun(t)
    /\ tuner' = self
    /\ threads' = [threads EXCEPT ![t].pc = to]

\* the same for a block that resolves field f
StepResolving(t, from, to, self, f) ==
    /\ threads[t].pc = from
    /\ MayRun(t)
    /\ tuner' = self
    /\ threads' = [threads EXCEPT ![t].pc = to, ![t].resolved[f] = self[f]]

Frame == UNCHANGED <<init, grids, call, ncalls, first, serialized, twin>>

Begin(t) ==
    /\ threads[t].pc = "idle"
    /\ MayRun(t)
    /\ \E method \in ThreadMethods, ref \in CallerGridNames, p \in ThreadOverrides :
          threads' = [threads EXCEPT ![t].pc = "optimizer", ![t].method = method,
                                     ![t].args = Args(p, ref)]
    /\ UNCHANGED tuner
    /\ Frame

ResolveOptimizer(t) ==
    /\ Step(t, "optimizer", "param_grid", check_optimizer(tuner, threads[t].args.optimizer))
    /\ Frame

ResolveParamGrid(t) ==
    /\ StepResolving(t, "param_grid", "scoring",
           set_param_grid(tuner, threads[t].args.param_grid, Family(threads[t].method).grid),
           "param_grid")
    /\ Frame

ResolveScoring(t) ==
    /\ StepResolving(t, "scoring", "fit_params",
           set_scoring(tuner, threads[t].args.scoring, Family(threads[t].method).scoring),
           "scoring")
    /\ Frame

ResolveFitParams(t) ==
    /\ Step(t, "fit_params", "cv", set_fit_params(tuner, threads[t].args.fit_params))
    /\ Frame

ResolveCv(t) ==
    /\ StepResolving(t, "cv", "instantiate",
           set_cv(tuner, threads[t].args.cv, Family(threads[t].method).cls), "cv")
    /\ Frame

\* gs = self.optimizer(estimator, ...): the object of thread t is gs number t
Instantiate(t) ==
    /\ threads[t].pc = "instantiate"
    /\ MayRun(t)
    /\ \E out \in {"ok", "init_raises"} :
          threads' = [threads EXCEPT
              ![t].kw = search_kwargs(tuner, Family(threads[t].method).estimator),
              ![t].pc = IF out = "ok" THEN "fit" ELSE "done",
              ![t].raised = IF out = "ok" THEN "none" ELSE "optimizer() error"]
    /\ UNCHANGED tuner
    /\ Frame

\* gs.fit(self.x, self.y)
Fit(t) ==
    /\ threads[t].pc = "fit"
    /\ MayRun(t)
    /\ \E out \in {"ok", "fit_raises"} :
          threads' = [threads EXCEPT
              ![t].pc = IF out = "ok" THEN "cv_results" ELSE "done",
              ![t].raised = IF out = "ok" THEN "none" ELSE "gs.fit() error"]
    /\ UNCHANGED tuner
    /\ Frame

CopyCvResults(t) ==
    /\ Step(t, "cv_results", "outputs", copy_cv_results(tuner, [tag |-> "gs", id |-> t]))
    /\ Frame

\* the assignments from self.best_estimator on; the first one raises when
\* the search was instantiated without refit
CopyOutputs(t) ==
    /\ threads[t].pc = "outputs"
    /\ MayRun(t)
    /\ IF HasAttr(threads[t].kw, "best_estimator_")
       THEN /\ tuner' = copy_outputs(tuner, [tag |-> "gs", id |-> t], threads[t].kw)
            /\ threads' = [threads EXCEPT ![t].pc = "done"]
       ELSE /\ UNCHANGED tuner
            /\ threads' = [threads EXCEPT ![t].pc = "done", ![t].raised = "AttributeError"]
    /\ Frame

InitThreads ==
    /\ Constructed
    /\ serialized \in BOOLEAN
    /\ twin = Absent

NextThreads ==
    \E t \in Threads :
        \/ Begin(t)
        \/ ResolveOptimizer(t)
        \/ ResolveParamGrid(t)
        \/ ResolveScoring(t)
        \/ ResolveFitParams(t)
        \/ ResolveCv(t)
        \/ Instantiate(t)
        \/ Fit(t)
        \/ CopyCvResults(t)
        \/ CopyOutputs(t)

SpecThreads == InitThreads /\ [][NextThreads]_vars

-----------------------------------------------------------------------------
(* What the properties below talk about *)

Classifiers ==
    {"LogisticRegression", "DecisionTreeClassifier", "SVC", "LinearSVC", "AdaBoostClassifier",
     "GradientBoostClassifier", "RandomForestClassifier"}

Regressors ==
    {"LinearRegression", "SVR", "LinearSVR", "AdaBoostRegressor", "GradientBoostRegressor",
     "RandomForestRegressor"}

\* the grid and the metric each family method names as its default
DefaultGrid(method) ==
    CASE method = "LinearRegression" -> LinearRegressionGrid
      [] method = "LogisticRegression" -> LogisticRegressionGrid
      [] method = "DecisionTreeClassifier" -> DecisionTreeClassifierGrid
      [] method = "SVC" -> SVCGrid
      [] method = "SVR" -> SVRGrid
      [] method = "LinearSVC" -> LinearSVCGrid
      [] method = "LinearSVR" -> LinearSVRGrid
      [] method = "AdaBoostClassifier" -> AdaBoostClassifierGrid
      [] method = "AdaBoostRegressor" -> AdaBoostRegressorGrid
      [] method = "GradientBoostClassifier" -> GradientBoostClassifierGrid
      [] method = "GradientBoostRegressor" -> GradientBoostRegressorGrid
      [] method = "RandomForestClassifier" -> RandomForestClassifierGrid
      [] method = "RandomForestRegressor" -> RandomForestRegressorGrid

DefaultScoring(method) ==
    CASE method \in {"LinearRegression", "SVR", "LinearSVR", "AdaBoostRegressor"} ->
             ExplainedVariance
      [] method = "LogisticRegression" -> Str("roc_auc")
      [] method \in {"GradientBoostRegressor", "RandomForestRegressor"} ->
             Str("neg_mean_absolute_error")
      [] OTHER -> Str("neg_log_loss")

\* the sklearn class each family method searches over
EstimatorClass(method) ==
    CASE method = "LinearRegression" -> "linear_model.LinearRegression"
      [] method = "LogisticRegression" -> "linear_model.LogisticRegression"
      [] method = "DecisionTreeClassifier" -> "tree.DecisionTreeClassifier"
      [] method = "SVC" -> "svm.SVC"
      [] method = "SVR" -> "svm.SVR"
      [] method = "LinearSVC" -> "svm.LinearSVC"
      [] method = "LinearSVR" -> "svm.LinearSVR"
      [] method = "AdaBoostClassifier" -> "ensemble.AdaBoostClassifier"
      [] method = "AdaBoostRegressor" -> "ensemble.AdaBoostRegressor"
      [] method = "GradientBoostClassifier" -> "ensemble.GradientBoostingClassifier"
      [] method = "GradientBoostRegressor" -> "ensemble.GradientBoostingRegressor"
      [] method = "RandomForestClassifier" -> "ensemble.RandomForestClassifier"
      [] method = "RandomForestRegressor" -> "ensemble.RandomForestRegressor"

FixedFields == {"x", "y", "n_jobs", "refit", "verbose", "error_score", "return_train_score"}

SearchErrors == {"optimizer() error", "gs.fit() error"}

\* the last operation was a family method / it got as far as calling the optimizer
FamilyCall == call.method \in Methods

ReachedSearch == FamilyCall /\ call.searches # <<>>

-----------------------------------------------------------------------------
(* C1 - preserve-if-set: a family-method call that passes no override for  *)
(* param_grid, scoring or cv leaves a value the field already holds as it  *)
(* is.                                                                     *)
C1_PreserveIfSet ==
    [][\A f \in {"param_grid", "scoring", "cv"} :
          (call'.method \in Methods /\ tuner[f] # None /\ call'.args[f] = None)
              => tuner'[f] = tuner[f]]_vars

(* C2 - an explicit override wins and is stored exactly: when the call     *)
(* reaches the search, each of optimizer, param_grid, scoring, fit_params  *)
(* and cv that was passed is on the tuner exactly as passed.               *)
C2_OverrideStoredExactly ==
    ReachedSearch =>
        \A f \in {"optimizer", "param_grid", "scoring", "fit_params", "cv"} :
            call.args[f] # None => tuner[f] = call.args[f]

(* C3 - fresh-tuner defaults: the first call on a tuner constructed without *)
(* param_grid and scoring, passing no overrides, leaves exactly the family's *)
(* default grid and default metric on the tuner.                            *)
C3_FreshDefaults ==
    (FamilyCall /\ ncalls = 1 /\ Passed(call.args) = {}
        /\ init.param_grid = None /\ init.scoring = None) =>
        /\ tuner.param_grid = DefaultGrid(call.method)
        /\ tuner.scoring = DefaultScoring(call.method)

(* C4 - the default splitter follows the family kind: a call that defaults *)
(* cv persists a StratifiedKFold for a classifier method and a KFold for a *)
(* regressor method.                                                       *)
C4_SplitterKind ==
    [][(call'.method \in Methods /\ tuner.cv = None /\ call'.args.cv = None) =>
          tuner'.cv.tag = IF call'.method \in Classifiers THEN "StratifiedKFold" ELSE "KFold"]_vars

(* C5 - the default splitter has the split count the tuner was constructed *)
(* with, whatever calls came before.                                       *)
C5_SplitterSize ==
    [][(call'.method \in Methods /\ tuner.cv = None /\ call'.args.cv = None) =>
          tuner'.cv.n_splits = init.n_splits]_vars

(* C6 - resolve, then construct, then search: a call that reaches the      *)
(* search invokes the optimizer once, with an estimator of the called      *)
(* family and the configuration as resolved by this call, fits it on x and *)
(* y, and the param_grid, scoring and cv left on the tuner are the ones    *)
(* the optimizer received.                                                 *)
C6_ResolveConstructSearch ==
    ReachedSearch =>
        /\ Len(call.searches) = 1
        /\ LET s == call.searches[1]
           IN  /\ s.optimizer = tuner.optimizer
               /\ s.kwargs.estimator.cls = EstimatorClass(call.method)
               /\ \A f \in {"param_grid", "scoring", "n_jobs", "cv", "refit", "verbose",
                            "error_score", "return_train_score"} : s.kwargs[f] = tuner[f]
               /\ \A f \in {"scoring", "cv"} :
                      call.args[f] # None => s.kwargs[f] = call.args[f]
               /\ call.args.optimizer # None => s.optimizer = call.args.optimizer
               /\ s.error # "optimizer() error" => s.fit = <<tuner.x, tuner.y>>

C6_Witness ==
    /\ ReachedSearch
    /\ call.raised = "none"
    /\ call.args.cv # None
    /\ ncalls = 2

(* C7 - results are overwritten by every successful search: after a call   *)
(* returns, every result field holds the output of that call's search and  *)
(* gs is that optimizer object.                                            *)
C7_ResultsOverwritten ==
    (FamilyCall /\ call.raised = "none") =>
        /\ Len(call.searches) = 1
        /\ LET s == call.searches[1]
           IN  /\ tuner.cv_results = Attr(s.gs, "cv_results_")
               /\ tuner.best_estimator = Attr(s.gs, "best_estimator_")
               /\ tuner.best_score = Attr(s.gs, "best_score_")
               /\ tuner.best_params = Attr(s.gs, "best_params_")
               /\ tuner.best_index = Attr(s.gs, "best_index_")
               /\ tuner.scorer = Attr(s.gs, "scorer_")
               /\ tuner.n_splits = n_splits_(s.kwargs)
               /\ tuner.gs = s.gs
               /\ \A f \in ResultFields : tuner[f].id = s.gs.id

\* a second search succeeded on a tuner that held the results of the first
C7_Witness ==
    /\ FamilyCall
    /\ call.raised = "none"
    /\ ncalls = 2
    /\ tuner.gs = [tag |-> "gs", id |-> 2]

(* C8 - a failed search fails the call and leaves no partial result: when  *)
(* the optimizer's constructor or fit raises, the call ends with that      *)
(* error and no result field (nor n_splits) is written.                    *)
C8_FailedSearch ==
    [][(call'.method \in Methods /\ call'.searches # <<>>
            /\ call'.searches[1].error \in SearchErrors) =>
          /\ call'.raised = call'.searches[1].error
          /\ \A f \in ResultFields \cup {"n_splits"} : tuner'[f] = tuner[f]]_vars

\* a fit failed under error_score = 'raise' on a tuner holding earlier results
C8_Witness ==
    /\ FamilyCall
    /\ call.raised = "gs.fit() error"
    /\ init.error_score = Str("raise")
    /\ tuner.gs # Absent

(* C9 - result fields never mix two searches: they are all absent, or all  *)
(* present and produced by one search.                                     *)
C9_ResultsFromOneSearch ==
    \/ \A f \in ResultFields : tuner[f] = Absent
    \/ /\ \A f \in ResultFields : tuner[f] # Absent
       /\ \A f \in ResultFields : tuner[f].id = tuner.gs.id

(* C10 - frame of the fixed fields: x, y, n_jobs, refit, verbose,          *)
(* error_score and return_train_score keep their constructor values, and   *)
(* every search is handed the constructor's error_score.                   *)
C10_FixedFields ==
    /\ \A f \in FixedFields : tuner[f] = init[f]
    /\ \A i \in DOMAIN call.searches : call.searches[i].kwargs.error_score = init.error_score

\* a search ran on a tuner constructed with an error_score other than the default
C10_Witness ==
    /\ ReachedSearch
    /\ init.error_score # Str("raise")
    /\ ncalls = 2

-----------------------------------------------------------------------------
(* C11 - the estimator handed to the search: the claim says no constructor  *)
(* argument of any estimator is set from a caller argument or a field, so   *)
(* every estimator is the library's default instance (class_weight = None). *)
C11_LibraryDefaultsOnly ==
    ReachedSearch =>
        \A kv \in call.searches[1].kwargs.estimator.kwargs : kv[2] = None

(* C11, amended - every family method constructs its estimator with no      *)
(* argument, except RandomForestClassifier, which passes its class_weight   *)
(* argument (None when the caller leaves it out) and nothing else.          *)
C11_OnlyForestClassWeight ==
    ReachedSearch =>
        call.searches[1].kwargs.estimator.kwargs =
            IF call.method = "RandomForestClassifier"
            THEN {<<"class_weight", call.args.class_weight>>}
            ELSE {}

C11_Witness ==
    /\ ReachedSearch
    /\ call.method = "RandomForestClassifier"
    /\ call.args.class_weight = CallerClassWeight
    /\ call.raised = "none"

\* the first call on the tuner was `method`, with no keyword argument
FirstCallNoOverride(method) ==
    /\ ncalls = 1
    /\ call.method = method
    /\ Passed(call.args) = {}

\* the hyperparameter names of a grid
Keys(grid) == DOMAIN grid.items

(* C13 - the logistic-regression example: on a fresh tuner, LogisticRegression()  *)
(* with no override persists scoring "roc_auc" and a grid whose keys are exactly  *)
(* C, tol and fit_intercept, runs the search on a LogisticRegression estimator,   *)
(* and when the search succeeds best_estimator is that search's best estimator.   *)
C13_LogisticRegressionExample ==
    FirstCallNoOverride("LogisticRegression") =>
        /\ tuner.scoring = Str("roc_auc")
        /\ Keys(tuner.param_grid) = {"C", "tol", "fit_intercept"}
        /\ Len(call.searches) = 1
        /\ LET s == call.searches[1]
           IN  /\ s.kwargs.estimator.cls = "linear_model.LogisticRegression"
               /\ s.kwargs.scoring = Str("roc_auc")
               /\ Keys(s.kwargs.param_grid) = {"C", "tol", "fit_intercept"}
               /\ call.raised = "none" => tuner.best_estimator = Attr(s.gs, "best_estimator_")

C13_Witness ==
    /\ FirstCallNoOverride("LogisticRegression")
    /\ call.raised = "none"
    /\ tuner.best_estimator # Absent

(* C14 - the decision-tree-classifier defaults as the claim names them: a grid   *)
(* over criterion, splitter, max_features, max_depth, min_samples_split and      *)
(* min_impurity_decrease, neg_log_loss scoring, a stratified k-fold splitter.    *)
C14_TreeDefaultsAsClaimed ==
    FirstCallNoOverride("DecisionTreeClassifier") =>
        /\ Keys(tuner.param_grid) = {"criterion", "splitter", "max_features", "max_depth",
                                     "min_samples_split", "min_impurity_decrease"}
        /\ tuner.scoring = Str("neg_log_loss")
        /\ tuner.cv.tag = "StratifiedKFold"

(* C14, amended - on a fresh tuner DecisionTreeClassifier() with no override     *)
(* resolves a grid over exactly criterion, splitter, max_features, max_depth,    *)
(* min_samples_split and min_impurity_split, neg_log_loss scoring and a          *)
(* stratified k-fold splitter, and hands these to the search.                    *)
C14_TreeDefaults ==
    FirstCallNoOverride("DecisionTreeClassifier") =>
        /\ Keys(tuner.param_grid) = {"criterion", "splitter", "max_features", "max_depth",
                                     "min_samples_split", "min_impurity_split"}
        /\ tuner.scoring = Str("neg_log_loss")
        /\ tuner.cv.tag = "StratifiedKFold"
        /\ Len(call.searches) = 1
        /\ \A f \in {"param_grid", "scoring", "cv"} : call.searches[1].kwargs[f] = tuner[f]

C14_Witness ==
    /\ FirstCallNoOverride("DecisionTreeClassifier")
    /\ call.raised = "none"

(* C16 - SVC discards persisted configuration: for each of param_grid,      *)
(* scoring and cv, an SVC call that passes no override for the field on a   *)
(* tuner where the field holds a value leaves the field unset: the value    *)
(* that was there is gone once the call has run its assignment.             *)
C16_SVCDiscardsPersisted ==
    [][\A f \in {"param_grid", "scoring", "cv"} :
          (call'.method = "SVC" /\ tuner[f] # None /\ call'.args[f] = None)
              => tuner'[f] = None]_vars

C16_Witness ==
    /\ call.method = "SVC"
    /\ ncalls = 2
    /\ Passed(call.args) = {}
    /\ \A f \in {"param_grid", "scoring", "cv"} : tuner[f] = None
    /\ call.raised = "TypeError"

\* the call ended in the error of reading a field the tuner does not have,
\* raised before any search was started
FailedReadingClassWeight ==
    /\ call.raised = "AttributeError"
    /\ call.searches = <<>>

(* C17 - the claim as stated: on a tuner whose class_weight was never set   *)
(* from outside, every SVC call, whatever its arguments, ends in the error  *)
(* of reading class_weight, before any search is started.                   *)
C17_EverySVCCallFails ==
    (call.method = "SVC" /\ tuner.class_weight = Absent) => FailedReadingClassWeight

(* C17, amended - on a tuner whose class_weight was never set from outside, *)
(* an SVC call ends in the error of reading class_weight, before any search *)
(* is started, exactly when it passes a class_weight argument; a call that  *)
(* leaves class_weight out never reads the field.                           *)
C17_SVCFailsWhenClassWeightPassed ==
    (call.method = "SVC" /\ tuner.class_weight = Absent) =>
        (FailedReadingClassWeight <=> call.args.class_weight # None)

C17_Witness ==
    /\ call.method = "SVC"
    /\ tuner.class_weight = Absent
    /\ call.args.class_weight = CallerClassWeight
    /\ FailedReadingClassWeight
    /\ ncalls = 1

(* C19 - optimizer and fit_params have no family default: a family call     *)
(* that passes none leaves the field exactly as it was, one that passes a   *)
(* value stores it, and nothing else changes the two fields; so optimizer   *)
(* is the constructor's or the one most recently passed, and fit_params     *)
(* stays unset until a caller passes one.                                   *)
C19_NoFamilyDefault ==
    [][\A f \in {"optimizer", "fit_params"} :
          tuner'[f] = IF call'.method \in Methods /\ call'.args[f] # None
                      THEN call'.args[f]
                      ELSE tuner[f]]_vars

C19_Witness ==
    /\ FamilyCall
    /\ ncalls = 2
    /\ call.args.optimizer = None
    /\ call.args.fit_params = None
    /\ tuner.optimizer = CallerOptimizer
    /\ tuner.fit_params = CallerFitParams

\* every entry of the grid is a non-empty tuple of candidate values
WellFormed(grid) ==
    \A k \in Keys(grid) : grid.items[k].tag = "tuple" /\ Len(grid.items[k].vals) > 0

(* C20 - default grids are well-formed: when a family method applies its    *)
(* own default grid (no param_grid passed, none persisted), every entry of  *)
(* the grid handed to the search is a non-empty collection of candidates,   *)
(* never a bare scalar or an unset value.                                   *)
C20_DefaultGridsWellFormed ==
    [][(call'.method \in Methods /\ call'.args.param_grid = None /\ tuner.param_grid = None
           /\ call'.searches # <<>>)
          => WellFormed(call'.searches[1].kwargs.param_grid)]_vars

\* the search of thread t was instantiated with a param_grid, scoring or cv
\* other than the one the tuner held when t's own block for the field had run
ConfigFromOtherCall(t) ==
    /\ threads[t].kw # Absent
    /\ \E f \in {"param_grid", "scoring", "cv"} : threads[t].kw[f] # threads[t].resolved[f]

\* two result fields on the tuner were copied from different optimizer objects
ResultsFromTwoSearches ==
    \E f, g \in ResultFields :
        /\ tuner[f] # Absent
        /\ tuner[g] # Absent
        /\ tuner[f].id # tuner[g].id

\* no call is in progress
Quiescent == \A t \in Threads : ~InCall(t)

(* C12 - serialized use is safe: when the two callers serialize their calls, *)
(* no search is instantiated with a param_grid, scoring or cv resolved by    *)
(* the other call, and between calls the result fields on the tuner never    *)
(* come from two different searches.  The witness is the unsafe half: with   *)
(* interleaved calls both kinds of mixing are reached.                       *)
C12_SerializedUseSafe ==
    serialized =>
        /\ \A t \in Threads : ~ConfigFromOtherCall(t)
        /\ Quiescent => ~ResultsFromTwoSearches

C12_Witness ==
    /\ ~serialized
    /\ Quiescent
    /\ \E t \in Threads : ConfigFromOtherCall(t) /\ threads[t].raised = "none"
    /\ ResultsFromTwoSearches

\* the splitter class each method constructs in its cv block
NamedSplitter(method) ==
    IF method \in {"GradientBoostRegressor", "RandomForestRegressor"}
    THEN "KFold" ELSE "StratifiedKFold"

\* the value a method resolves for field f on a tuner where f is unset
OwnDefault(method, f) ==
    CASE f = "param_grid" -> DefaultGrid(method)
      [] f = "scoring" -> DefaultScoring(method)
      [] f = "cv" -> Splitter(NamedSplitter(method), init.n_splits)

(* C18 - the first family's defaults stick: on a fresh tuner, in a session   *)
(* of no-override calls to methods other than SVC, every search receives     *)
(* the param_grid, scoring and cv that the first method called names as its  *)
(* defaults, whatever family the call is for; and a call changes one of the  *)
(* three fields only when the field was unset at the time of the call.       *)
C18_FirstDefaultsStick ==
    [][\A f \in {"param_grid", "scoring", "cv"} :
          /\ call'.searches # <<>> => call'.searches[1].kwargs[f] = OwnDefault(first', f)
          /\ tuner'[f] # tuner[f] => tuner[f] = None]_vars

C18_Witness ==
    /\ ncalls = 3
    /\ first = "LinearRegression"
    /\ call.method = "RandomForestClassifier"
    /\ call.raised = "none"
    /\ call.searches[1].kwargs.param_grid = LinearRegressionGrid
    /\ call.searches[1].kwargs.scoring = ExplainedVariance
    /\ call.searches[1].kwargs.cv = Splitter("StratifiedKFold", 5)

\* the step is an SVC call that passes neither param_grid nor class_weight,
\* on a tuner whose param_grid holds a value
SVCOnPersistedGrid ==
    /\ call'.method = "SVC"
    /\ call'.args.param_grid = None
    /\ call'.args.class_weight = None
    /\ tuner.param_grid # None

\* such a call raises while adding the class_weight entry: no optimizer is
\* instantiated, the result fields are as before, param_grid is left unset
RaisesAddingClassWeight ==
    /\ call'.raised = "TypeError"
    /\ call'.searches = <<>>
    /\ \A f \in ResultFields \cup {"n_splits"} : tuner'[f] = tuner[f]
    /\ tuner'.param_grid = None

(* C21 - the claim as stated: an SVC call without param_grid and without    *)
(* class_weight on a tuner whose param_grid is set raises while adding the  *)
(* class_weight entry, instantiates no optimizer, leaves the result fields  *)
(* untouched and param_grid unset, and leaves scoring and cv unset unless   *)
(* the call overrode them.                                                  *)
C21_SVCOnPersistedGridAsClaimed ==
    [][SVCOnPersistedGrid =>
          /\ RaisesAddingClassWeight
          /\ \A f \in {"scoring", "cv"} : tuner'[f] = call'.args[f]]_vars

(* C21, amended - the same, except that scoring and cv are left unset only  *)
(* when they held a value before the call and were not overridden: a field  *)
(* overridden in the call holds the override, and one that was unset before *)
(* the call holds SVC's default ("neg_log_loss", a StratifiedKFold with the *)
(* tuner's n_splits).                                                       *)
C21_SVCOnPersistedGrid ==
    [][SVCOnPersistedGrid =>
          /\ RaisesAddingClassWeight
          /\ tuner'.scoring = IF call'.args.scoring # None THEN call'.args.scoring
                              ELSE IF tuner.scoring = None THEN Str("neg_log_loss")
                              ELSE None
          /\ tuner'.cv = IF call'.args.cv # None THEN call'.args.cv
                         ELSE IF tuner.cv = None THEN Splitter("StratifiedKFold", tuner.n_splits)
                         ELSE None]_vars

C21_Witness ==
    /\ call.method = "SVC"
    /\ ncalls = 1
    /\ init.param_grid # None
    /\ init.scoring = None
    /\ init.cv # None
    /\ Passed(call.args) = {}
    /\ call.raised = "TypeError"
    /\ tuner.param_grid = None
    /\ tuner.scoring = Str("neg_log_loss")
    /\ tuner.cv = None

ConfigFields == {"optimizer", "param_grid", "scoring", "fit_params", "cv"}

\* the call of this step failed in the search and what it resolved is on the tuner:
\* the optimizer, grid, metric and splitter its search received, and its fit_params
ChangesPersisted ==
    /\ tuner'.optimizer = call'.searches[1].optimizer
    /\ \A f \in {"param_grid", "scoring", "cv"} : tuner'[f] = call'.searches[1].kwargs[f]
    /\ \A f \in ConfigFields \ {"param_grid"} : call'.args[f] # None => tuner'[f] = call'.args[f]
    /\ call'.args.fit_params = None => tuner'.fit_params = tuner.fit_params

\* the call of this step runs its search with the configuration on the tuner
UsesPersisted ==
    /\ call'.searches # <<>>
    /\ call'.searches[1].optimizer = tuner.optimizer
    /\ \A f \in {"param_grid", "scoring", "cv"} :
           tuner[f] # None => call'.searches[1].kwargs[f] = tuner[f]
    /\ tuner'.fit_params = tuner.fit_params

(* C22 - no rollback on failure: when a family call fails in the search,     *)
(* the overrides and defaults of optimizer, param_grid, scoring, fit_params *)
(* and cv it resolved stay on the tuner, and the next call, if it passes no *)
(* override, runs its search with them.                                     *)
C22_NoRollback ==
    [][/\ (call'.method \in Methods /\ call'.raised \in SearchErrors) => ChangesPersisted
       /\ (call.method \in Methods /\ call.raised \in SearchErrors
             /\ call'.method \in Methods /\ Passed(call'.args) = {}) => UsesPersisted]_vars

\* the value SVC stores under the key class_weight
InjectedClassWeight ==
    IF call.args.class_weight = None THEN None
    ELSE IF tuner.class_weight = None THEN Str("balanced")
    ELSE call.args.class_weight

(* C23 - SVC always injects a class_weight entry: after every SVC call that *)
(* reached the search, the persisted grid, which is the grid the search     *)
(* received and, when the caller passed one, the caller's own dict, has a   *)
(* key class_weight; its value is unset when no class_weight was passed,    *)
(* "balanced" when one was passed and the tuner's class_weight is None, and *)
(* the passed value otherwise.                                              *)
C23_SVCInjectsClassWeight ==
    (call.method = "SVC" /\ call.searches # <<>>) =>
        /\ "class_weight" \in Keys(tuner.param_grid)
        /\ tuner.param_grid.items.class_weight = InjectedClassWeight
        /\ call.searches[1].kwargs.param_grid = tuner.param_grid
        /\ call.args.param_grid # None =>
               \E g \in CallerGridNames : Dict(grids[g]) = tuner.param_grid

C23_Witness ==
    /\ call.method = "SVC"
    /\ call.raised = "none"
    /\ call.args.class_weight = CallerClassWeight
    /\ call.args.param_grid # None
    /\ tuner.class_weight = None
    /\ tuner.param_grid.items.class_weight = Str("balanced")
    /\ grids["g1"].class_weight = Str("balanced")

====
